---- MODULE Spec2Model ----
(***************************************************************************)
(* Model of the AnyAudio speech-to-text pipeline: AudioConverter,          *)
(* AudioService (transcribeFile, translateFile, processAudioDirectory,     *)
(* saveTranscription) and the audio routes that drive them.                *)
(*                                                                         *)
(* A file name is the sequence of its dot-separated segments               *)
(* ("voice.opus" is <<"voice", "opus">>), a path is a directory plus a     *)
(* file name, and an error message is a sequence of text tokens, so that   *)
(* path.extname / path.basename / path.parse and the message prefixes are  *)
(* computed the way the code computes them.  Timestamps                    *)
(* (new Date().toISOString()) are left out of the records.                 *)
(***************************************************************************)
EXTENDS Integers, Sequences, FiniteSets, TLC

\* ---------------------------------------------------------------- bounds
MaxFiles == 3
MaxRequests == 2
MaxSegments == 2
MaxSaves == 2

\* ------------------------------------------------------------- constants
TurboModel == "whisper-large-v3-turbo"
PreciseModel == "whisper-large-v3"
ConfigModels == {TurboModel, PreciseModel}

AudioDirName == "audios"
TextsDirName == "texts"
UploadsDirName == "uploads"

TranscribePrefix == "Error al transcribir el archivo: "
TranslatePrefix == "Error al traducir el archivo: "
ProcessPrefix == "Error procesando archivo: "
ConvertAccessPrefix == "Error al convertir archivo OPUS: "
FfmpegPrefix == "Error convirtiendo "
DirectoryPrefix == "Error al procesar directorio de audio: "
ConvertDirPrefix == "Error procesando directorio: "
SavePrefix == "Error al guardar transcripción: "

Null == [isNull |-> TRUE]
NoPath == [dir |-> "", segs |-> <<>>]

\* ------------------------------------------------------- path operations
\* String.prototype.toLowerCase on the extensions the model uses.
ToLowerCase(s) ==
  CASE s = "OPUS" -> "opus"
    [] s = "MP3" -> "mp3"
    [] OTHER -> s

\* The name has an extension for path.extname and path.parse: it holds a dot
\* that is not just the leading character of a dotfile (".mp3", ".").
HasExtension(segs) == Len(segs) >= 2 /\ ~(Len(segs) = 2 /\ segs[1] = "")

\* path.extname without its dot: the last segment when the name has an
\* extension, "" otherwise; a trailing dot ("a.") gives "" as well.
ExtName(segs) == IF HasExtension(segs) THEN segs[Len(segs)] ELSE ""

\* path.basename(p)
BaseName(p) == p.segs

\* path.basename(p, '.opus'): the suffix is removed only on an exact match.
BaseNameWithoutOpus(p) ==
  IF Len(p.segs) >= 2 /\ p.segs[Len(p.segs)] = "opus"
    THEN SubSeq(p.segs, 1, Len(p.segs) - 1)
    ELSE p.segs

\* path.parse(name).name
ParseName(segs) ==
  IF HasExtension(segs) THEN SubSeq(segs, 1, Len(segs) - 1) ELSE segs

\* path.join(directory, file)
Join(dir, segs) == [dir |-> dir, segs |-> segs]

\* path.dirname(p)
DirName(p) == p.dir

\* A path interpolated into a message.
PathText(p) == <<p.dir>> \o p.segs

audioExtensions ==
  {"mp3", "wav", "m4a", "flac", "ogg", "opus", "webm", "mp4", "mpeg", "mpga"}

\* FilterAudio comparing the extension as it is written.
RECURSIVE FilterAudioExact(_)
FilterAudioExact(files) ==
  IF files = <<>> THEN <<>>
  ELSE LET rest == FilterAudioExact(Tail(files))
       IN IF ExtName(Head(files)) \in audioExtensions
            THEN <<Head(files)>> \o rest
            ELSE rest

\* files.filter(file => audioExtensions.includes(path.extname(file).toLowerCase()))
RECURSIVE FilterAudio(_)
FilterAudio(files) ==
  IF files = <<>> THEN <<>>
  ELSE LET rest == FilterAudio(Tail(files))
       IN IF ToLowerCase(ExtName(Head(files))) \in audioExtensions
            THEN <<Head(files)>> \o rest
            ELSE rest

\* needsConversion sending every file that is not yet an mp4 to the converter.
needsConversionNotTarget(p) == ToLowerCase(ExtName(p.segs)) # "mp4"

\* AudioConverter.needsConversion
needsConversion(p) == ToLowerCase(ExtName(p.segs)) = "opus"

\* supportedExtensions of AudioService.isValidAudioFile
supportedExtensions ==
  {"mp3", "wav", "m4a", "flac", "ogg", "opus", "webm", "mp4", "mpeg", "mpga"}

\* isValidAudioFile comparing the extension as it is written.
isValidAudioFileExact(p) == ExtName(p.segs) \in supportedExtensions

\* AudioService.isValidAudioFile
isValidAudioFile(p) == ToLowerCase(ExtName(p.segs)) \in supportedExtensions

\* outputPath of convertOpusToMp4
ConvertOutputPath(p) == Join(DirName(p), BaseNameWithoutOpus(p) \o <<"mp4">>)

\* ------------------------------------------------- the modelled inputs
\* Entries the audio directory may hold, in the order readdir lists them.
\* present = FALSE is an entry whose target cannot be accessed; isDirectory
\* = TRUE is a subdirectory.
DirPool ==
  << [segs |-> <<"a", "mp3">>, present |-> TRUE, isDirectory |-> FALSE],
     [segs |-> <<"a", "mp4">>, present |-> TRUE, isDirectory |-> FALSE],
     [segs |-> <<"a", "opus">>, present |-> TRUE, isDirectory |-> FALSE],
     [segs |-> <<"b", "txt">>, present |-> TRUE, isDirectory |-> FALSE],
     [segs |-> <<"c", "flac">>, present |-> TRUE, isDirectory |-> FALSE],
     [segs |-> <<"d", "OPUS">>, present |-> TRUE, isDirectory |-> FALSE],
     [segs |-> <<"e", "wav">>, present |-> FALSE, isDirectory |-> FALSE],
     [segs |-> <<"f", "opus">>, present |-> FALSE, isDirectory |-> FALSE],
     [segs |-> <<"x", "mp3">>, present |-> TRUE, isDirectory |-> TRUE] >>

RECURSIVE SelectEntries(_, _)
SelectEntries(pool, chosen) ==
  IF pool = <<>> THEN <<>>
  ELSE LET rest == SelectEntries(Tail(pool), chosen)
       IN IF Head(pool) \in chosen THEN <<Head(pool)>> \o rest ELSE rest

PoolSet == {DirPool[i] : i \in 1..Len(DirPool)}
Directories ==
  {SelectEntries(DirPool, c) : c \in {s \in SUBSET PoolSet : Cardinality(s) <= MaxFiles}}

DefaultOptions ==
  [language |-> "", prompt |-> "", responseFormat |-> "verbose_json",
   timestampGranularities |-> <<"segment">>, temperature |-> 0]
OptionPool ==
  { DefaultOptions,
    [language |-> "es", prompt |-> "nombres propios", responseFormat |-> "text",
     timestampGranularities |-> <<"segment">>, temperature |-> 0],
    [language |-> "", prompt |-> "", responseFormat |-> "json",
     timestampGranularities |-> <<>>, temperature |-> 0],
    [language |-> "", prompt |-> "", responseFormat |-> "verbose_json",
     timestampGranularities |-> <<>>, temperature |-> 0] }

GroqMarked == {"Groq API error: rate limit exceeded"}
RemoteErrors == {<<"401 Invalid API Key">>} \cup {<<t>> : t \in GroqMarked}
NodeEnvs == {"development", "production"}
FfmpegErrors == {<<"ffmpeg exited with code 1">>}
FsErrors == {<<"EACCES: permission denied">>}
ReaddirErrors == {<<"ENOENT: no such file or directory, scandir">>}
AccessError == <<"ENOENT: no such file or directory, access">>
ReadDirectoryError == <<"EISDIR: illegal operation on a directory, read">>
UndefinedTextError == <<"Cannot read properties of undefined (reading 'text')">>
SpokenTexts == {"hola"}

\* The segments of the path strings handed to needsConversion and
\* isValidAudioFile: empty, unknown, and the ten extensions, two of them also
\* in upper case.
ProbeTokens ==
  {"", "a", "txt", "OPUS", "MP3",
   "mp3", "wav", "m4a", "flac", "ogg", "opus", "webm", "mp4", "mpeg", "mpga"}

RECURSIVE NamesOfLength(_)
NamesOfLength(n) ==
  IF n = 0 THEN {<<>>}
  ELSE {<<t>> \o rest : t \in ProbeTokens, rest \in NamesOfLength(n - 1)}

ProbePaths ==
  {Join(AudioDirName, segs) : segs \in UNION {NamesOfLength(n) : n \in 1..MaxSegments}}


\* ------------------------------------------------------------------ state
VARIABLES
  configured,  \* config.groq.model, the constructor argument
  model,       \* AudioService.model of the shared instance
  audioDir,    \* entries of the audio directory, in readdir order
  disk,        \* paths that fs.access finds
  texts,       \* transcript artifacts in the texts directory
  call,        \* the transcribeFile / translateFile / processAudioFile call of each caller
  batch,       \* the processAudioDirectory / convertOpusFilesInDirectory invocation
  summary,     \* the response of POST /process-directory
  route,       \* the /transcribe and /translate requests
  attempts,    \* paths processAudioDirectory handed to transcribeFile, in order
  written,     \* original paths of the results whose artifact was written
  probe,       \* a path string and what needsConversion / isValidAudioFile said of it
  nodeEnv,     \* process.env.NODE_ENV
  madeFrom     \* files the converter wrote: their path, their source, whether they replaced a file

vars ==
  <<configured, model, audioDir, disk, texts, call, batch, summary, route,
    attempts, written, probe, nodeEnv, madeFrom>>

\* No path string has been examined.
IdleProbe == [path |-> NoPath, applied |-> {}, needs |-> FALSE, valid |-> FALSE]

BatchCaller == 0
Requests == 1..MaxRequests
Callers == {BatchCaller} \cup Requests

\* ------------------------------------------- transcribeFile / translateFile
IdleCall ==
  [op |-> "none", pc |-> "idle", filePath |-> NoPath, options |-> DefaultOptions,
   pr |-> Null, params |-> Null, result |-> Null, error |-> <<>>]

\* Entry of transcribeFile / translateFile: fs.access(filePath) is pending.
NewCall(op, filePath, options) ==
  [IdleCall EXCEPT !.op = op, !.pc = "access", !.filePath = filePath,
                   !.options = options]

\* OpPrefix with the transcribe message copied into translateFile.
OpPrefixCopied(op) == TranscribePrefix

\* The prefix of the catch of transcribeFile / of translateFile.
OpPrefix(op) == IF op = "translate" THEN TranslatePrefix ELSE TranscribePrefix

\* catch (error) { throw new Error(`<prefix>${error.message}`) }
Throw(c, inner) ==
  [c EXCEPT !.pc = "thrown", !.error = <<OpPrefix(c.op)>> \o inner]

\* TranslationModel without the substitution.
TranslationModelConfigured(m) == m

\* model used by translateFile: turbo is replaced for this request only.
TranslationModel(m) == IF m = TurboModel THEN PreciseModel ELSE m

\* TranscriptionParams attaching the granularities whenever the list is not
\* empty, whatever the response format.
TranscriptionParamsAnyFormat(o, actualFilePath, m) ==
  [api |-> "transcriptions", file |-> actualFilePath, model |-> m,
   response_format |-> o.responseFormat, temperature |-> o.temperature,
   language |-> o.language, prompt |-> o.prompt,
   timestamp_granularities |-> o.timestampGranularities,
   fields |-> {"file", "model", "response_format", "temperature"}
     \cup (IF o.language # "" THEN {"language"} ELSE {})
     \cup (IF o.prompt # "" THEN {"prompt"} ELSE {})
     \cup (IF Len(o.timestampGranularities) > 0
             THEN {"timestamp_granularities"} ELSE {})]

\* transcriptionParams of transcribeFile
TranscriptionParams(o, actualFilePath, m) ==
  [api |-> "transcriptions", file |-> actualFilePath, model |-> m,
   response_format |-> o.responseFormat, temperature |-> o.temperature,
   language |-> o.language, prompt |-> o.prompt,
   timestamp_granularities |->
     IF o.responseFormat = "verbose_json" /\ Len(o.timestampGranularities) > 0
       THEN o.timestampGranularities ELSE <<>>,
   fields |-> {"file", "model", "response_format", "temperature"}
     \cup (IF o.language # "" THEN {"language"} ELSE {})
     \cup (IF o.prompt # "" THEN {"prompt"} ELSE {})
     \cup (IF o.responseFormat = "verbose_json" /\ Len(o.timestampGranularities) > 0
             THEN {"timestamp_granularities"} ELSE {})]

\* TranslationParams passing the caller's language on when one is given.
TranslationParamsCallerLanguage(o, actualFilePath, m) ==
  [api |-> "translations", file |-> actualFilePath, model |-> TranslationModel(m),
   response_format |-> o.responseFormat, temperature |-> o.temperature,
   language |-> IF o.language # "" THEN o.language ELSE "en", prompt |-> o.prompt,
   timestamp_granularities |-> <<>>,
   fields |-> {"file", "model", "response_format", "temperature", "language"}
     \cup (IF o.prompt # "" THEN {"prompt"} ELSE {})]

\* translationParams of translateFile
TranslationParams(o, actualFilePath, m) ==
  [api |-> "translations", file |-> actualFilePath, model |-> TranslationModel(m),
   response_format |-> o.responseFormat, temperature |-> o.temperature,
   language |-> "en", prompt |-> o.prompt,
   timestamp_granularities |-> <<>>,
   fields |-> {"file", "model", "response_format", "temperature", "language"}
     \cup (IF o.prompt # "" THEN {"prompt"} ELSE {})]

\* The three values processAudioFile returns.
CompatibleResult(filePath) ==
  [success |-> TRUE, originalPath |-> filePath, processedPath |-> filePath,
   wasConverted |-> FALSE]

ConvertedResult(filePath, convertedPath) ==
  [success |-> TRUE, originalPath |-> filePath, processedPath |-> convertedPath,
   wasConverted |-> TRUE, originalFormat |-> "opus", targetFormat |-> "mp4"]

FailedResult(filePath, message) ==
  [success |-> FALSE, originalPath |-> filePath, error |-> message,
   wasConverted |-> FALSE]

\* AfterProcess without the check of processResult.success: the request is
\* built on the original path and sent although the processing failed.
AfterProcessUnchecked(c, pr, m) ==
  IF c.op = "process" THEN [c EXCEPT !.pr = pr, !.pc = "returned"]
  ELSE LET actualFilePath == IF pr.success THEN pr.processedPath ELSE c.filePath
       IN [c EXCEPT !.pr = pr, !.pc = "remote",
                    !.params = IF c.op = "translate"
                                 THEN TranslationParams(c.options, actualFilePath, m)
                                 ELSE TranscriptionParams(c.options, actualFilePath, m)]

\* AfterProcess for a processAudioFile without its try/catch: a failed
\* conversion is thrown to the caller instead of being returned.
AfterProcessRaising(c, pr, m) ==
  IF ~pr.success THEN Throw([c EXCEPT !.pr = pr], pr.error)
  ELSE IF c.op = "process" THEN [c EXCEPT !.pr = pr, !.pc = "returned"]
  ELSE [c EXCEPT !.pr = pr, !.pc = "remote",
                 !.params = IF c.op = "translate"
                              THEN TranslationParams(c.options, pr.processedPath, m)
                              ELSE TranscriptionParams(c.options, pr.processedPath, m)]

\* What follows the return of processAudioFile: its direct caller gets the
\* value; transcribeFile / translateFile throw on success = false and
\* otherwise build the request and send it.
AfterProcess(c, pr, m) ==
  IF c.op = "process" THEN [c EXCEPT !.pr = pr, !.pc = "returned"]
  ELSE IF ~pr.success
    THEN Throw([c EXCEPT !.pr = pr], <<ProcessPrefix>> \o pr.error)
  ELSE [c EXCEPT !.pr = pr, !.pc = "remote",
                 !.params = IF c.op = "translate"
                              THEN TranslationParams(c.options, pr.processedPath, m)
                              ELSE TranscriptionParams(c.options, pr.processedPath, m)]

\* Entry of a direct processAudioFile(filePath) call.
NewProcessCall(filePath, m) ==
  LET c == [IdleCall EXCEPT !.op = "process", !.filePath = filePath]
  IN IF needsConversion(filePath)
       THEN [c EXCEPT !.pc = "convAccess"]
       ELSE AfterProcess(c, CompatibleResult(filePath), m)

\* The response body of the remote service for a response format.
Payload(responseFormat, text) ==
  IF responseFormat = "text"
    THEN [type |-> "string", text |-> text]
    ELSE [type |-> "object", text |-> text]

ConversionInfo(pr) ==
  IF pr.wasConverted
    THEN [originalFormat |-> pr.originalFormat, targetFormat |-> pr.targetFormat]
    ELSE Null

\* fileName of transcribeFile / translateFile: path.basename(actualFilePath).
ResultFileName(pr) == BaseName(pr.processedPath)

\* The value transcribeFile returns.
TranscriptionResult(c, payload, m) ==
  [success |-> TRUE, transcription |-> payload,
   metadata |->
     [fileName |-> ResultFileName(c.pr), originalFilePath |-> c.filePath,
      processedFilePath |-> c.pr.processedPath, wasConverted |-> c.pr.wasConverted,
      conversionInfo |-> ConversionInfo(c.pr), model |-> m,
      language |-> IF c.options.language # "" THEN c.options.language
                   ELSE "auto-detect"]]

\* The value translateFile returns.
TranslationResult(c, payload) ==
  [success |-> TRUE, translation |-> payload,
   metadata |->
     [fileName |-> ResultFileName(c.pr), originalFilePath |-> c.filePath,
      processedFilePath |-> c.pr.processedPath, wasConverted |-> c.pr.wasConverted,
      conversionInfo |-> ConversionInfo(c.pr), model |-> c.params.model,
      targetLanguage |-> "en"]]

\* The path names a subdirectory of the audio directory.
IsDirectory(path) ==
  /\ path.dir = AudioDirName
  /\ \E k \in 1..Len(audioDir) : audioDir[k].segs = path.segs /\ audioDir[k].isDirectory

\* await fs.access(filePath) of transcribeFile / translateFile completes.
CallAccess(p) ==
  /\ call[p].pc = "access"
  /\ call' = [call EXCEPT ![p] =
       IF call[p].filePath \in disk
         THEN IF needsConversion(call[p].filePath)
                THEN [call[p] EXCEPT !.pc = "convAccess"]
                ELSE AfterProcess(call[p], CompatibleResult(call[p].filePath), model)
         ELSE Throw(call[p], AccessError)]
  /\ UNCHANGED <<configured, probe, nodeEnv, madeFrom, model, audioDir, disk, texts, batch, summary, route,
                 attempts, written>>

\* await fs.access(inputPath) of convertOpusToMp4 completes.
CallConvAccess(p) ==
  /\ call[p].pc = "convAccess"
  /\ call' = [call EXCEPT ![p] =
       IF call[p].filePath \in disk
         THEN [call[p] EXCEPT !.pc = "ffmpeg"]
         ELSE AfterProcess(call[p],
                FailedResult(call[p].filePath, <<ConvertAccessPrefix>> \o AccessError),
                model)]
  /\ UNCHANGED <<configured, probe, nodeEnv, madeFrom, model, audioDir, disk, texts, batch, summary, route,
                 attempts, written>>

\* The directory after the converter wrote its output file.
DirAfterWrite(dir, out) ==
  IF out.dir = AudioDirName /\ \A i \in 1..Len(dir) : dir[i].segs # out.segs
    THEN Append(dir, [segs |-> out.segs, present |-> TRUE, isDirectory |-> FALSE])
    ELSE dir

\* ffmpeg ... -y outputPath (.save): the output file now holds the audio of the
\* input, whether or not a file of that name was there before.
WriteConverted(made, out, input, existed) ==
  {m \in made : m.path # out}
    \cup {[path |-> out, from |-> input, replaced |-> existed]}

\* The converter's 'end' event: the output file exists.
CallFfmpegEnd(p) ==
  /\ call[p].pc = "ffmpeg"
  /\ ~IsDirectory(call[p].filePath)
  /\ LET out == ConvertOutputPath(call[p].filePath)
     IN /\ disk' = disk \cup {out}
        /\ audioDir' = DirAfterWrite(audioDir, out)
        /\ madeFrom' = WriteConverted(madeFrom, out, call[p].filePath, out \in disk)
        /\ call' = [call EXCEPT ![p] =
             AfterProcess(call[p], ConvertedResult(call[p].filePath, out), model)]
  /\ UNCHANGED <<configured, probe, nodeEnv, model, texts, batch, summary, route,
                 attempts, written>>

\* The converter's 'error' event: the promise rejects outside the try of
\* convertOpusToMp4, so only the converter's own prefix is applied.
CallFfmpegError(p) ==
  /\ call[p].pc = "ffmpeg"
  /\ \E msg \in FfmpegErrors :
       call' = [call EXCEPT ![p] =
         AfterProcess(call[p],
           FailedResult(call[p].filePath,
             <<FfmpegPrefix>> \o PathText(call[p].filePath) \o <<": ">> \o msg),
           model)]
  /\ UNCHANGED <<configured, probe, nodeEnv, madeFrom, model, audioDir, disk, texts, batch, summary, route,
                 attempts, written>>

\* The remote service answers.
CallRemoteOk(p) ==
  /\ call[p].pc = "remote"
  /\ ~IsDirectory(call[p].params.file)
  /\ \E text \in SpokenTexts :
       LET payload == Payload(call[p].params.response_format, text)
       IN call' = [call EXCEPT ![p] =
            [call[p] EXCEPT !.pc = "returned",
               !.result = IF call[p].op = "translate"
                            THEN TranslationResult(call[p], payload)
                            ELSE TranscriptionResult(call[p], payload, model)]]
  /\ UNCHANGED <<configured, probe, nodeEnv, madeFrom, model, audioDir, disk, texts, batch, summary, route,
                 attempts, written>>

\* The remote service fails (authentication, network, quota).
CallRemoteFail(p) ==
  /\ call[p].pc = "remote"
  /\ ~IsDirectory(call[p].params.file)
  /\ \E msg \in RemoteErrors :
       call' = [call EXCEPT ![p] = Throw(call[p], msg)]
  /\ UNCHANGED <<configured, probe, nodeEnv, madeFrom, model, audioDir, disk, texts, batch, summary, route,
                 attempts, written>>

\* fs.createReadStream(actualFilePath) was opened on a directory: reading it
\* fails, no upload is made and the awaited create() rejects.
CallReadFail(p) ==
  /\ call[p].pc = "remote"
  /\ IsDirectory(call[p].params.file)
  /\ call' = [call EXCEPT ![p] = Throw(call[p], ReadDirectoryError)]
  /\ UNCHANGED <<configured, probe, nodeEnv, madeFrom, model, audioDir, disk, texts, batch, summary, route,
                 attempts, written>>

CallStep(p) ==
  \/ CallAccess(p)
  \/ CallConvAccess(p)
  \/ CallFfmpegEnd(p)
  \/ CallFfmpegError(p)
  \/ CallRemoteOk(p)
  \/ CallRemoteFail(p)


\* ------------------------------------------------------ saveTranscription
FsOk == [at |-> "none", msg |-> <<>>]
FsOutcomes ==
  {FsOk} \cup {[at |-> a, msg |-> m] : a \in {"mkdir", "writeFile"}, m \in FsErrors}

\* content of saveTranscription: the string, its text field, or a JSON dump.
ArtifactBody(transcription) ==
  IF transcription.type = "string" THEN [json |-> FALSE, text |-> transcription.text]
  ELSE IF transcription.text # "" THEN [json |-> FALSE, text |-> transcription.text]
  ELSE [json |-> TRUE, text |-> transcription.text]

\* saveTranscription(transcriptionResult, outputDirectory) under an outcome of
\* its two filesystem calls: the artifact it writes, or the error it throws.
SaveTranscription(result, outputDirectory, fs) ==
  IF fs.at = "mkdir"
    THEN [ok |-> FALSE, error |-> <<SavePrefix>> \o fs.msg]
  ELSE IF "transcription" \notin DOMAIN result
    THEN [ok |-> FALSE, error |-> <<SavePrefix>> \o UndefinedTextError]
  ELSE IF fs.at = "writeFile"
    THEN [ok |-> FALSE, error |-> <<SavePrefix>> \o fs.msg]
  ELSE [ok |-> TRUE,
        outputPath |-> Join(outputDirectory, ParseName(result.metadata.fileName) \o <<"txt">>),
        content |->
          [fileName |-> result.metadata.fileName, model |-> result.metadata.model,
           language |-> IF "language" \in DOMAIN result.metadata
                          THEN result.metadata.language ELSE "auto-detect",
           body |-> ArtifactBody(result.transcription)]]

\* WriteArtifact adding a file next to the one already there.
WriteArtifactKeeping(dir, outputPath, content) ==
  dir \cup {[path |-> outputPath, content |-> content]}

\* fs.writeFile(outputPath, fileContent): an artifact of that name is replaced.
WriteArtifact(dir, outputPath, content) ==
  {a \in dir : a.path # outputPath} \cup {[path |-> outputPath, content |-> content]}

\* ---------------------- processAudioDirectory / convertOpusFilesInDirectory
IdleBatch ==
  [op |-> "none", pc |-> "idle", files |-> <<>>, audioFiles |-> <<>>, i |-> 0,
   results |-> <<>>, options |-> DefaultOptions, outputDirectory |-> "",
   error |-> <<>>]

\* The entry pushed by the catch of the loop body.
FailureRecord(file, filePath, message) ==
  [success |-> FALSE, error |-> message,
   metadata |-> [fileName |-> file, filePath |-> filePath]]

\* PushResult adding at the front (unshift).
PushResultFront(results, entry) == <<entry>> \o results

\* results.push(entry)
PushResult(results, entry) == Append(results, entry)

\* files.filter(file => path.extname(file).toLowerCase() === '.opus')
RECURSIVE FilterOpus(_)
FilterOpus(files) ==
  IF files = <<>> THEN <<>>
  ELSE LET rest == FilterOpus(Tail(files))
       IN IF ToLowerCase(ExtName(Head(files))) = "opus"
            THEN <<Head(files)>> \o rest
            ELSE rest

\* fs.readdir(audioDirectory): the names, in listing order.
Readdir(dir) == [i \in 1..Len(dir) |-> dir[i].segs]

\* No operation has been started yet.
Quiet == batch.pc = "idle" /\ \A r \in Requests : route[r].pc = "idle"

\* The for loop moves to entry j of audioFiles, or the function returns.
BatchEnter(b, j) ==
  IF j > Len(b.audioFiles)
    THEN /\ batch' = [b EXCEPT !.pc = "returned", !.i = j]
         /\ call' = [call EXCEPT ![BatchCaller] = IdleCall]
         /\ UNCHANGED attempts
    ELSE LET filePath == Join(AudioDirName, b.audioFiles[j])
         IN /\ batch' = [b EXCEPT !.pc = "awaitCall", !.i = j]
            /\ IF b.op = "processAudioDirectory"
                 THEN /\ call' = [call EXCEPT ![BatchCaller] =
                            NewCall("transcribe", filePath, b.options)]
                      /\ attempts' = Append(attempts, filePath)
                 ELSE /\ call' = [call EXCEPT ![BatchCaller] =
                            NewProcessCall(filePath, model)]
                      /\ UNCHANGED attempts

\* POST /process-directory calls processAudioDirectory.
StartProcessDirectory ==
  /\ Quiet
  /\ \E options \in OptionPool, saveToFiles \in BOOLEAN :
       batch' = [IdleBatch EXCEPT !.op = "processAudioDirectory", !.pc = "readdir",
                   !.options = options,
                   !.outputDirectory = IF saveToFiles THEN TextsDirName ELSE ""]
  /\ UNCHANGED <<configured, probe, nodeEnv, madeFrom, model, audioDir, disk, texts, call, summary, route,
                 attempts, written>>

\* convertOpusFilesInDirectory is called on the audio directory.
StartConvertDirectory ==
  /\ Quiet
  /\ batch' = [IdleBatch EXCEPT !.op = "convertOpusFilesInDirectory", !.pc = "readdir"]
  /\ UNCHANGED <<configured, probe, nodeEnv, madeFrom, model, audioDir, disk, texts, call, summary, route,
                 attempts, written>>

\* A caller of the library invokes transcribeFile or translateFile on one
\* entry of the audio directory.
StartDirectCall ==
  /\ Quiet
  /\ \E op \in {"transcribe", "translate"}, k \in 1..Len(audioDir),
        options \in OptionPool :
       call' = [call EXCEPT ![BatchCaller] =
                  NewCall(op, Join(AudioDirName, audioDir[k].segs), options)]
  /\ batch' = [IdleBatch EXCEPT !.op = "direct", !.pc = "direct"]
  /\ UNCHANGED <<configured, probe, nodeEnv, madeFrom, model, audioDir, disk, texts, summary, route,
                 attempts, written>>

\* The caller of transcribeFile / translateFile hands the returned result to
\* saveTranscription(result, textsDir), up to MaxSaves times; batch.results
\* keeps what each save returned or threw.
DirectSave ==
  /\ batch.op = "direct"
  /\ batch.i < MaxSaves
  /\ call[BatchCaller].pc = "returned"
  /\ \E fs \in FsOutcomes :
       LET result == call[BatchCaller].result
           s == SaveTranscription(result, TextsDirName, fs)
       IN /\ batch' = [batch EXCEPT !.i = batch.i + 1,
                          !.results = Append(batch.results, s)]
          /\ IF s.ok
               THEN /\ texts' = WriteArtifact(texts, s.outputPath, s.content)
                    /\ written' = written \cup {result.metadata.originalFilePath}
               ELSE UNCHANGED <<texts, written>>
  /\ UNCHANGED <<configured, probe, nodeEnv, madeFrom, model, audioDir, disk, call, summary, route,
                 attempts>>

\* fs.readdir succeeds: filter the names and enter the loop.
BatchReaddir ==
  /\ batch.pc = "readdir"
  /\ LET files == Readdir(audioDir)
         b == [batch EXCEPT !.files = files,
                 !.audioFiles =
                   IF batch.op = "processAudioDirectory"
                     THEN FilterAudio(files) ELSE FilterOpus(files)]
     IN BatchEnter(b, 1)
  /\ UNCHANGED <<configured, probe, nodeEnv, madeFrom, model, audioDir, disk, texts, summary, route, written>>

\* fs.readdir fails: the outer catch rethrows with the directory prefix.
BatchReaddirFail ==
  /\ batch.pc = "readdir"
  /\ \E msg \in ReaddirErrors :
       batch' = [batch EXCEPT !.pc = "thrown",
                   !.error = <<IF batch.op = "processAudioDirectory"
                                 THEN DirectoryPrefix ELSE ConvertDirPrefix>> \o msg]
  /\ UNCHANGED <<configured, probe, nodeEnv, madeFrom, model, audioDir, disk, texts, call, summary, route,
                 attempts, written>>

\* BatchOnReturn that pushes the result and goes on to the next file without
\* saving it.
BatchOnReturnNoSave ==
  /\ batch.pc = "awaitCall"
  /\ call[BatchCaller].pc = "returned"
  /\ BatchEnter([batch EXCEPT !.results =
                   PushResult(batch.results,
                     IF batch.op = "processAudioDirectory"
                       THEN call[BatchCaller].result ELSE call[BatchCaller].pr)],
                batch.i + 1)
  /\ UNCHANGED <<configured, probe, nodeEnv, madeFrom, model, audioDir, disk, texts, summary, route, written>>

\* The awaited call returned: push its value; processAudioDirectory then
\* saves it when an output directory was given.
BatchOnReturn ==
  /\ batch.pc = "awaitCall"
  /\ call[BatchCaller].pc = "returned"
  /\ IF batch.op = "processAudioDirectory"
       THEN LET b == [batch EXCEPT !.results =
                        PushResult(batch.results, call[BatchCaller].result)]
            IN IF b.outputDirectory # ""
                 THEN /\ batch' = [b EXCEPT !.pc = "saving"]
                      /\ UNCHANGED <<call, attempts>>
                 ELSE BatchEnter(b, b.i + 1)
       ELSE BatchEnter([batch EXCEPT !.results =
                          PushResult(batch.results, call[BatchCaller].pr)],
                       batch.i + 1)
  /\ UNCHANGED <<configured, probe, nodeEnv, madeFrom, model, audioDir, disk, texts, summary, route, written>>

\* BatchOnThrow that invokes transcribeFile once more for a file whose first
\* attempt threw, before recording the failure.
BatchOnThrowRetry ==
  /\ batch.pc = "awaitCall"
  /\ batch.op = "processAudioDirectory"
  /\ call[BatchCaller].pc = "thrown"
  /\ LET filePath == call[BatchCaller].filePath
         tries == Cardinality({j \in 1..Len(attempts) : attempts[j] = filePath})
     IN IF tries < 2
          THEN /\ call' = [call EXCEPT ![BatchCaller] =
                     NewCall("transcribe", filePath, batch.options)]
               /\ attempts' = Append(attempts, filePath)
               /\ UNCHANGED batch
          ELSE BatchEnter([batch EXCEPT !.results =
                             PushResult(batch.results,
                               FailureRecord(batch.audioFiles[batch.i], filePath,
                                             call[BatchCaller].error))],
                          batch.i + 1)
  /\ UNCHANGED <<configured, probe, nodeEnv, madeFrom, model, audioDir, disk, texts,
                 summary, route, written>>

\* BatchOnThrow with a catch that leaves the loop after recording the failure.
BatchOnThrowBreak ==
  /\ batch.pc = "awaitCall"
  /\ batch.op = "processAudioDirectory"
  /\ call[BatchCaller].pc = "thrown"
  /\ batch' = [batch EXCEPT !.pc = "returned",
                 !.results = Append(batch.results,
                   [success |-> FALSE, error |-> call[BatchCaller].error,
                    metadata |-> [fileName |-> batch.audioFiles[batch.i],
                                  filePath |-> call[BatchCaller].filePath]])]
  /\ call' = [call EXCEPT ![BatchCaller] = IdleCall]
  /\ UNCHANGED <<configured, probe, nodeEnv, madeFrom, model, audioDir, disk, texts, summary, route, written,
                 attempts>>

\* BatchOnThrow with a catch that also writes an artifact for the failed file.
BatchOnThrowSaves ==
  /\ batch.pc = "awaitCall"
  /\ batch.op = "processAudioDirectory"
  /\ call[BatchCaller].pc = "thrown"
  /\ batch' = [batch EXCEPT
                 !.pc = IF batch.i + 1 > Len(batch.audioFiles)
                          THEN "returned" ELSE "awaitCall",
                 !.i = batch.i + 1,
                 !.results = Append(batch.results,
                   [success |-> FALSE, error |-> call[BatchCaller].error,
                    metadata |-> [fileName |-> batch.audioFiles[batch.i],
                                  filePath |-> call[BatchCaller].filePath]])]
  /\ call' = [call EXCEPT ![BatchCaller] =
       IF batch.i + 1 > Len(batch.audioFiles) THEN IdleCall
       ELSE [IdleCall EXCEPT !.op = "transcribe", !.pc = "access",
               !.filePath = [dir |-> AudioDirName, segs |-> batch.audioFiles[batch.i + 1]],
               !.options = batch.options]]
  /\ attempts' =
       IF batch.i + 1 > Len(batch.audioFiles) THEN attempts
       ELSE Append(attempts, [dir |-> AudioDirName, segs |-> batch.audioFiles[batch.i + 1]])
  /\ written' = IF batch.outputDirectory # ""
                  THEN written \cup {call[BatchCaller].filePath} ELSE written
  /\ texts' = IF batch.outputDirectory # ""
                THEN texts \cup {[path |-> call[BatchCaller].filePath,
                                  content |-> call[BatchCaller].error]}
                ELSE texts
  /\ UNCHANGED <<configured, probe, nodeEnv, madeFrom, model, audioDir, disk, summary, route>>

\* BatchOnThrow without the inner try: the error reaches the outer catch.
BatchOnThrowRethrow ==
  /\ batch.pc = "awaitCall"
  /\ batch.op = "processAudioDirectory"
  /\ call[BatchCaller].pc = "thrown"
  /\ batch' = [batch EXCEPT !.pc = "thrown",
                 !.error = <<DirectoryPrefix>> \o call[BatchCaller].error]
  /\ call' = [call EXCEPT ![BatchCaller] = IdleCall]
  /\ UNCHANGED <<configured, probe, nodeEnv, madeFrom, model, audioDir, disk, texts, summary, route, written,
                 attempts>>

\* transcribeFile threw: the catch of the loop body pushes a failure record.
BatchOnThrow ==
  /\ batch.pc = "awaitCall"
  /\ batch.op = "processAudioDirectory"
  /\ call[BatchCaller].pc = "thrown"
  /\ BatchEnter([batch EXCEPT !.results =
                   PushResult(batch.results,
                     FailureRecord(batch.audioFiles[batch.i],
                                   call[BatchCaller].filePath,
                                   call[BatchCaller].error))],
                batch.i + 1)
  /\ UNCHANGED <<configured, probe, nodeEnv, madeFrom, model, audioDir, disk, texts, summary, route, written>>

\* await this.saveTranscription(result, outputDirectory) completes; when it
\* throws, the same catch pushes a failure record.
BatchSave ==
  /\ batch.pc = "saving"
  /\ \E fs \in FsOutcomes :
       LET result == call[BatchCaller].result
           s == SaveTranscription(result, batch.outputDirectory, fs)
       IN IF s.ok
            THEN /\ texts' = WriteArtifact(texts, s.outputPath, s.content)
                 /\ written' = written \cup {result.metadata.originalFilePath}
                 /\ BatchEnter(batch, batch.i + 1)
            ELSE /\ UNCHANGED <<texts, written>>
                 /\ BatchEnter([batch EXCEPT !.results =
                                  PushResult(batch.results,
                                    FailureRecord(batch.audioFiles[batch.i],
                                                  call[BatchCaller].filePath,
                                                  s.error))],
                               batch.i + 1)
  /\ UNCHANGED <<configured, probe, nodeEnv, madeFrom, model, audioDir, disk, summary, route>>

\* Summary counting as successful only the entries whose payload is an object.
SummaryObjectsOnly(results) ==
  [total |-> Len(results),
   successful |-> Cardinality({i \in 1..Len(results) :
                    results[i].success /\ results[i].transcription.type = "object"}),
   failed |-> Cardinality({i \in 1..Len(results) : ~results[i].success})]

\* successCount / errorCount / total of the /process-directory response.
Summary(results) ==
  [total |-> Len(results),
   successful |-> Cardinality({i \in 1..Len(results) : results[i].success}),
   failed |-> Cardinality({i \in 1..Len(results) : ~results[i].success})]

\* processAudioDirectory returned: the route answers with the summary.
BatchRespond ==
  /\ batch.pc = "returned"
  /\ batch.op = "processAudioDirectory"
  /\ batch' = [batch EXCEPT !.pc = "responded"]
  /\ summary' = Summary(batch.results)
  /\ UNCHANGED <<configured, probe, nodeEnv, madeFrom, model, audioDir, disk, texts, call, route, attempts,
                 written>>

\* ------------------------------------ POST /transcribe and POST /translate
IdleRoute ==
  [pc |-> "idle", op |-> "none", file |-> NoPath, saveToFile |-> FALSE,
   error |-> <<>>, response |-> Null]

\* The name multer gives the upload of a request: field name, a unique
\* suffix, and the extension of the original name.
UploadStem(r) ==
  CASE r = 1 -> "audio-1"
    [] r = 2 -> "audio-2"
    [] r = 3 -> "audio-3"
    [] OTHER -> "audio-n"

UploadExtensions == {"mp3", "opus"}
UploadPath(r, ext) == Join(UploadsDirName, <<UploadStem(r), ext>>)

\* The options object each route builds from the request body.
RouteOptions(op) ==
  IF op = "translate"
    THEN {[language |-> "", prompt |-> "", responseFormat |-> "json",
           timestampGranularities |-> <<>>, temperature |-> 0]}
    ELSE {DefaultOptions}

\* A request arrives with its upload stored; the handler calls
\* transcribeFile or translateFile on the shared service.
RouteStart(r) ==
  /\ route[r].pc = "idle"
  /\ \E op \in {"transcribe", "translate"}, ext \in UploadExtensions,
        saveToFile \in BOOLEAN :
       \E options \in RouteOptions(op) :
         /\ route' = [route EXCEPT ![r] =
              [IdleRoute EXCEPT !.pc = "awaitCall", !.op = op,
                 !.file = UploadPath(r, ext), !.saveToFile = saveToFile]]
         /\ disk' = disk \cup {UploadPath(r, ext)}
         /\ call' = [call EXCEPT ![r] = NewCall(op, UploadPath(r, ext), options)]
  /\ UNCHANGED <<configured, probe, nodeEnv, madeFrom, model, audioDir, texts, batch, summary, attempts,
                 written>>

\* The call returned a result: save it when saveToFile was set.
RouteOnReturn(r) ==
  /\ route[r].pc = "awaitCall"
  /\ call[r].pc = "returned"
  /\ route' = [route EXCEPT ![r].pc =
       IF route[r].saveToFile THEN "saving" ELSE "unlink"]
  /\ UNCHANGED <<configured, probe, nodeEnv, madeFrom, model, audioDir, disk, texts, call, batch, summary,
                 attempts, written>>

\* await audioService.saveTranscription(result, config.audio.textsDir)
RouteSave(r) ==
  /\ route[r].pc = "saving"
  /\ \E fs \in FsOutcomes :
       LET s == SaveTranscription(call[r].result, TextsDirName, fs)
       IN IF s.ok
            THEN /\ texts' = WriteArtifact(texts, s.outputPath, s.content)
                 /\ written' = written \cup {call[r].result.metadata.originalFilePath}
                 /\ route' = [route EXCEPT ![r].pc = "unlink"]
            ELSE /\ UNCHANGED <<texts, written>>
                 /\ route' = [route EXCEPT ![r].pc = "cleanup", ![r].error = s.error]
  /\ UNCHANGED <<configured, probe, nodeEnv, madeFrom, model, audioDir, disk, call, batch, summary, attempts>>

\* await fs.unlink(file.path); res.json({success: true, data: result}).
\* The result leaves with the response; the handler's frame is gone.
RouteUnlink(r) ==
  /\ route[r].pc = "unlink"
  /\ disk' = disk \ {route[r].file}
  /\ route' = [route EXCEPT ![r] =
       [IdleRoute EXCEPT !.pc = "responded", !.response = [success |-> TRUE]]]
  /\ call' = [call EXCEPT ![r] = IdleCall]
  /\ UNCHANGED <<configured, probe, nodeEnv, madeFrom, model, audioDir, texts, batch, summary, attempts,
                 written>>

\* The call threw: the catch of the handler takes the error.
RouteOnThrow(r) ==
  /\ route[r].pc = "awaitCall"
  /\ call[r].pc = "thrown"
  /\ route' = [route EXCEPT ![r].pc = "cleanup", ![r].error = call[r].error]
  /\ UNCHANGED <<configured, probe, nodeEnv, madeFrom, model, audioDir, disk, texts, call, batch, summary,
                 attempts, written>>

\* error.message.includes('Groq')
IncludesGroq(message) == \E i \in 1..Len(message) : message[i] \in GroqMarked

\* errorHandler for an error without a multer code: the status and the body
\* it answers with.
ErrorHandler(message, env) ==
  IF IncludesGroq(message)
    THEN [status |-> 500, success |-> FALSE,
          error |-> "Error en el servicio de transcripción",
          details |-> <<"Por favor, intenta de nuevo más tarde">>]
    ELSE [status |-> 500, success |-> FALSE,
          error |-> "Error interno del servidor",
          details |-> IF env = "development" THEN message ELSE <<"Algo salió mal">>]

\* catch: await fs.unlink(req.file.path); next(error)
RouteCleanup(r) ==
  /\ route[r].pc = "cleanup"
  /\ disk' = disk \ {route[r].file}
  /\ route' = [route EXCEPT ![r] =
       [IdleRoute EXCEPT !.pc = "failed",
          !.response = ErrorHandler(route[r].error, nodeEnv)]]
  /\ call' = [call EXCEPT ![r] = IdleCall]
  /\ UNCHANGED <<configured, probe, nodeEnv, madeFrom, model, audioDir, texts, batch, summary, attempts,
                 written>>

\* ---------------------------------------------------------- specification

DiskOf(dir) == {Join(AudioDirName, dir[i].segs) : i \in {k \in 1..Len(dir) : dir[k].present}}

Init ==
  /\ configured \in ConfigModels
  /\ model = configured
  /\ audioDir \in Directories
  /\ disk = DiskOf(audioDir)
  /\ texts = {}
  /\ call = [p \in Callers |-> IdleCall]
  /\ batch = IdleBatch
  /\ summary = Null
  /\ route = [r \in Requests |-> IdleRoute]
  /\ attempts = <<>>
  /\ written = {}
  /\ probe = IdleProbe
  /\ nodeEnv = "production"
  /\ madeFrom = {}

SingleRequest == 1

\* A single request to /transcribe or /translate.
SoleRouteStart == Quiet /\ RouteStart(SingleRequest)

\* One operation of the service, run from start to end on its own.
Next ==
  \/ StartProcessDirectory
  \/ StartConvertDirectory
  \/ StartDirectCall
  \/ DirectSave
  \/ SoleRouteStart
  \/ BatchReaddir
  \/ BatchReaddirFail
  \/ BatchOnReturn
  \/ BatchOnThrow
  \/ BatchSave
  \/ BatchRespond
  \/ RouteOnReturn(SingleRequest)
  \/ RouteSave(SingleRequest)
  \/ RouteUnlink(SingleRequest)
  \/ RouteOnThrow(SingleRequest)
  \/ RouteCleanup(SingleRequest)
  \/ CallStep(BatchCaller)
  \/ CallReadFail(BatchCaller)
  \/ CallStep(SingleRequest)

Spec == Init /\ [][Next]_vars


\* The routes /transcribe and /translate served concurrently by the shared
\* AudioService instance.
InitCalls ==
  /\ configured \in ConfigModels
  /\ model = configured
  /\ audioDir = <<>>
  /\ disk = {}
  /\ texts = {}
  /\ call = [p \in Callers |-> IdleCall]
  /\ batch = IdleBatch
  /\ summary = Null
  /\ route = [r \in Requests |-> IdleRoute]
  /\ attempts = <<>>
  /\ written = {}
  /\ probe = IdleProbe
  /\ nodeEnv = "production"
  /\ madeFrom = {}

NextCalls ==
  \/ \E r \in Requests : RouteStart(r)
  \/ \E r \in Requests : RouteOnReturn(r)
  \/ \E r \in Requests : RouteSave(r)
  \/ \E r \in Requests : RouteUnlink(r)
  \/ \E r \in Requests : RouteOnThrow(r)
  \/ \E r \in Requests : RouteCleanup(r)
  \/ \E r \in Requests : CallStep(r)

SpecCalls == InitCalls /\ [][NextCalls]_vars


\* transcribeFile / translateFile invoked concurrently on the shared instance
\* for files of the audio directory (as concurrent batches or library callers
\* do), here on a directory of at most one entry.
SharedDirectories == {d \in Directories : Len(d) <= 1}

InitShared ==
  /\ configured \in ConfigModels
  /\ model = configured
  /\ audioDir \in SharedDirectories
  /\ disk = DiskOf(audioDir)
  /\ texts = {}
  /\ call = [p \in Callers |-> IdleCall]
  /\ batch = IdleBatch
  /\ summary = Null
  /\ route = [r \in Requests |-> IdleRoute]
  /\ attempts = <<>>
  /\ written = {}
  /\ probe = IdleProbe
  /\ nodeEnv = "production"
  /\ madeFrom = {}

\* Invocation r starts on an entry of the audio directory.
StartSharedCall(r) ==
  /\ call[r].pc = "idle"
  /\ \E op \in {"transcribe", "translate"}, k \in 1..Len(audioDir) :
       call' = [call EXCEPT ![r] =
                  NewCall(op, Join(AudioDirName, audioDir[k].segs), DefaultOptions)]
  /\ UNCHANGED <<configured, probe, nodeEnv, madeFrom, model, audioDir, disk, texts, batch, summary, route,
                 attempts, written>>

NextShared ==
  \/ \E r \in Requests : StartSharedCall(r)
  \/ \E r \in Requests : CallStep(r)
  \/ \E r \in Requests : CallReadFail(r)

SpecShared == InitShared /\ [][NextShared]_vars

\* One request to /transcribe or /translate, under either runtime mode.
InitRequest ==
  /\ configured \in ConfigModels
  /\ model = configured
  /\ audioDir = <<>>
  /\ disk = {}
  /\ texts = {}
  /\ call = [p \in Callers |-> IdleCall]
  /\ batch = IdleBatch
  /\ summary = Null
  /\ route = [r \in Requests |-> IdleRoute]
  /\ attempts = <<>>
  /\ written = {}
  /\ probe = IdleProbe
  /\ nodeEnv \in NodeEnvs
  /\ madeFrom = {}

NextRequest ==
  \/ SoleRouteStart
  \/ RouteOnReturn(SingleRequest)
  \/ RouteSave(SingleRequest)
  \/ RouteUnlink(SingleRequest)
  \/ RouteOnThrow(SingleRequest)
  \/ RouteCleanup(SingleRequest)
  \/ CallStep(SingleRequest)

SpecRequest == InitRequest /\ [][NextRequest]_vars

\* needsConversion and isValidAudioFile applied to a path string.
InitPolicy ==
  /\ configured \in ConfigModels
  /\ model = configured
  /\ audioDir = <<>>
  /\ disk = {}
  /\ texts = {}
  /\ call = [p \in Callers |-> IdleCall]
  /\ batch = IdleBatch
  /\ summary = Null
  /\ route = [r \in Requests |-> IdleRoute]
  /\ attempts = <<>>
  /\ written = {}
  /\ \E path \in ProbePaths : probe = [IdleProbe EXCEPT !.path = path]
  /\ nodeEnv = "production"
  /\ madeFrom = {}

ApplyNeedsConversion ==
  /\ "needsConversion" \notin probe.applied
  /\ probe' = [probe EXCEPT !.applied = @ \cup {"needsConversion"},
                            !.needs = needsConversion(probe.path)]
  /\ UNCHANGED <<configured, nodeEnv, madeFrom, model, audioDir, disk, texts, call, batch, summary,
                 route, attempts, written>>

ApplyIsValidAudioFile ==
  /\ "isValidAudioFile" \notin probe.applied
  /\ probe' = [probe EXCEPT !.applied = @ \cup {"isValidAudioFile"},
                            !.valid = isValidAudioFile(probe.path)]
  /\ UNCHANGED <<configured, nodeEnv, madeFrom, model, audioDir, disk, texts, call, batch, summary,
                 route, attempts, written>>

NextPolicy == ApplyNeedsConversion \/ ApplyIsValidAudioFile

SpecPolicy == InitPolicy /\ [][NextPolicy]_vars


\* ------------------------------------------------------------ properties
\* The path a report entry is about.
EntryPath(entry) ==
  IF entry.success THEN entry.metadata.originalFilePath ELSE entry.metadata.filePath

DiscoveredPaths(b) == [k \in 1..Len(b.audioFiles) |-> Join(AudioDirName, b.audioFiles[k])]

InLoop == batch.op = "processAudioDirectory" /\ batch.pc \in {"awaitCall", "saving"}
Returned == batch.op = "processAudioDirectory" /\ batch.pc \in {"returned", "responded"}

\* C1: once the listing succeeded, processAudioDirectory hands every discovered
\* file to transcribeFile exactly once, in order, whatever failed before:
\* inside the loop the attempts are the first i discovered files and the
\* loop can always go on; at the return the attempts are all of them.
C1_EveryFileAttemptedOnce ==
  /\ InLoop =>
       /\ attempts = SubSeq(DiscoveredPaths(batch), 1, batch.i)
       /\ ENABLED Next
  /\ Returned => attempts = DiscoveredPaths(batch)

\* A batch of three files returned although its first two files failed.
C1_Witness ==
  /\ Returned
  /\ Len(attempts) = 3
  /\ Len(batch.results) >= 3
  /\ ~batch.results[1].success
  /\ ~batch.results[2].success

\* C2: the returned report has one entry per discovered file, entry k being
\* the outcome of file k.
C2_OneEntryPerFile ==
  Returned =>
    /\ Len(batch.results) = Len(batch.audioFiles)
    /\ \A k \in 1..Len(batch.results) :
         EntryPath(batch.results[k]) = DiscoveredPaths(batch)[k]

\* C3: the counts of the /process-directory response add up to the length
\* of the report.
C3_SummaryCounts ==
  summary # Null =>
    /\ summary.successful + summary.failed = summary.total
    /\ summary.total = Len(batch.results)

\* A response that counts successes (one of them a plain-string payload) and failures.
C3_Witness ==
  /\ summary # Null
  /\ summary.successful >= 1
  /\ summary.failed >= 1
  /\ \E k \in 1..Len(batch.results) :
       batch.results[k].success /\ batch.results[k].transcription.type = "string"

\* Position of a path in the listing of the audio directory.
ListingIndex(path) ==
  CHOOSE k \in 1..Len(audioDir) : Join(AudioDirName, audioDir[k].segs) = path

\* C4: report entries are in listing order: an entry of a file listed
\* earlier never comes after an entry of a file listed later.
C4_ReportInListingOrder ==
  batch.op = "processAudioDirectory" =>
    \A i, j \in 1..Len(batch.results) :
      i < j => ListingIndex(EntryPath(batch.results[i]))
                 <= ListingIndex(EntryPath(batch.results[j]))

\* A returned report where a failed file is followed by a successful one.
C4_Witness ==
  /\ Returned
  /\ Len(batch.results) >= 2
  /\ ~batch.results[1].success
  /\ batch.results[2].success
  /\ EntryPath(batch.results[1]) # EntryPath(batch.results[2])

\* C5: processAudioDirectory throws only when reading the directory fails,
\* before any file was attempted and with the directory prefix; once in the
\* loop it never ends in a throw.
C5_OnlyReaddirThrows ==
  batch.op = "processAudioDirectory" =>
    /\ batch.pc = "thrown" =>
         /\ batch.i = 0
         /\ attempts = <<>>
         /\ batch.error[1] = DirectoryPrefix
         /\ Tail(batch.error) \in ReaddirErrors
    /\ batch.i >= 1 => batch.pc \in {"awaitCall", "saving", "returned", "responded"}

\* A report returned normally that holds a missing-file, a conversion and a
\* save failure.
C5_Witness ==
  /\ Returned
  /\ \E k \in 1..Len(batch.results) :
       ~batch.results[k].success /\ batch.results[k].error[1] = SavePrefix
  /\ \E k \in 1..Len(batch.results) :
       ~batch.results[k].success /\ batch.results[k].error[2] = ProcessPrefix
  /\ \E k \in 1..Len(batch.results) :
       ~batch.results[k].success /\ Tail(batch.results[k].error) = AccessError


IsFileCall(c) == c.op \in {"transcribe", "translate"}

\* C6: the fileName of a result is the base name of the original input path.
C6_FileNameIsOriginal ==
  \A p \in Callers :
    IsFileCall(call[p]) /\ call[p].pc = "returned" =>
      call[p].result.metadata.fileName = BaseName(call[p].filePath)

\* C7: on an instance configured with the turbo model every translateFile
\* request and result carry the precise model, every transcribeFile request
\* and result carry the turbo model, and the instance's model stays the
\* configured one.
C7_TranslationModelSubstitution ==
  /\ model = configured
  /\ configured = TurboModel =>
       \A p \in Callers :
         /\ call[p].op = "translate" /\ call[p].params # Null =>
              call[p].params.model = PreciseModel
         /\ call[p].op = "translate" /\ call[p].pc = "returned" =>
              call[p].result.metadata.model = PreciseModel
         /\ call[p].op = "transcribe" /\ call[p].params # Null =>
              call[p].params.model = TurboModel
         /\ call[p].op = "transcribe" /\ call[p].pc = "returned" =>
              call[p].result.metadata.model = TurboModel

\* A translation has returned while a transcription on the same instance is
\* waiting for the remote service.
C7_Witness ==
  /\ configured = TurboModel
  /\ \E p, q \in Requests :
       /\ call[p].op = "translate" /\ call[p].pc = "returned"
       /\ call[q].op = "transcribe" /\ call[q].pc = "remote"

\* C8: a failed transcribeFile / translateFile ends in one thrown error whose
\* message starts with the prefix of its own stage and carries no result; a
\* call that returned passed every step.
C8_StagePrefix ==
  \A p \in Callers :
    IsFileCall(call[p]) =>
      /\ call[p].pc = "thrown" =>
           /\ call[p].error[1] = (IF call[p].op = "transcribe"
                                    THEN TranscribePrefix ELSE TranslatePrefix)
           /\ Len(call[p].error) >= 2
           /\ call[p].result = Null
      /\ call[p].pc = "returned" =>
           /\ call[p].error = <<>>
           /\ call[p].pr # Null
           /\ call[p].pr.success
           /\ call[p].params # Null

\* translateFile failed because the conversion failed.
C8_Witness ==
  /\ call[BatchCaller].op = "translate"
  /\ call[BatchCaller].pc = "thrown"
  /\ call[BatchCaller].error[2] = ProcessPrefix

\* C9: no artifact is written for a file before its call returned a result,
\* nor for a file whose call threw, in the batch and in the routes; a save is
\* only in progress for a returned result.
C9_ArtifactOnlyAfterSuccess ==
  /\ \A p \in Callers :
       IsFileCall(call[p]) /\ call[p].pc # "returned" => call[p].filePath \notin written
  /\ batch.op = "processAudioDirectory" =>
       \A k \in 1..Len(batch.results) :
         ~batch.results[k].success /\ batch.results[k].error[1] = TranscribePrefix =>
           batch.results[k].metadata.filePath \notin written
  /\ \A r \in Requests :
       route[r].pc = "cleanup" /\ route[r].error[1] \in {TranscribePrefix, TranslatePrefix} =>
         route[r].file \notin written
  /\ batch.pc = "saving" => call[BatchCaller].pc = "returned"
  /\ \A r \in Requests : route[r].pc = "saving" => call[r].pc = "returned"
  /\ Cardinality(texts) <= Cardinality(written)

\* A batch with an output directory in which the remote service failed for
\* one file and another file's artifact was written.
C9_Witness ==
  /\ Returned
  /\ batch.outputDirectory # ""
  /\ written # {}
  /\ \E k \in 1..Len(batch.results) :
       /\ ~batch.results[k].success
       /\ Tail(batch.results[k].error) \in RemoteErrors

IsResultObject(pr) ==
  /\ pr # Null
  /\ "success" \in DOMAIN pr
  /\ ~pr.success => "error" \in DOMAIN pr /\ pr.error # <<>>

\* C10: processAudioFile never raises: a direct call always ends with a
\* result object (success = false and a message when the conversion failed),
\* and transcribeFile / translateFile go on with such an object.
C10_ProcessNeverRaises ==
  /\ \A p \in Callers :
       /\ call[p].op = "process" =>
            /\ call[p].pc # "thrown"
            /\ call[p].pc = "returned" => IsResultObject(call[p].pr)
       /\ IsFileCall(call[p]) /\ call[p].pc \in {"remote", "returned"} =>
            IsResultObject(call[p].pr) /\ call[p].pr.success
       /\ IsFileCall(call[p]) /\ call[p].pc = "thrown" /\ call[p].pr # Null =>
            /\ IsResultObject(call[p].pr)
            /\ ~call[p].pr.success =>
                 call[p].error = <<OpPrefix(call[p].op), ProcessPrefix>> \o call[p].pr.error
  /\ batch.op = "convertOpusFilesInDirectory" =>
       /\ batch.pc = "thrown" => batch.i = 0
       /\ \A k \in 1..Len(batch.results) : IsResultObject(batch.results[k])

\* convertOpusFilesInDirectory returned the three outcomes of processAudioFile:
\* a conversion, a converter error and a missing input file.
C10_Witness ==
  /\ batch.op = "convertOpusFilesInDirectory"
  /\ batch.pc = "returned"
  /\ \E k \in 1..Len(batch.results) : batch.results[k].wasConverted
  /\ \E k \in 1..Len(batch.results) :
       ~batch.results[k].success /\ batch.results[k].error[1] = FfmpegPrefix
  /\ \E k \in 1..Len(batch.results) :
       ~batch.results[k].success /\ batch.results[k].error[1] = ConvertAccessPrefix

\* C11: the remote service is invoked only after processAudioFile returned
\* success = true: a request exists only for a successfully processed file and
\* is built on its processed path; a call whose file is missing or whose
\* processing failed is thrown without any request.
C11_RemoteOnlyAfterProcessing ==
  \A p \in Callers :
    IsFileCall(call[p]) =>
      /\ call[p].params # Null =>
           /\ call[p].pr # Null
           /\ call[p].pr.success
           /\ call[p].params.file = call[p].pr.processedPath
      /\ call[p].pc = "remote" => call[p].params # Null
      /\ call[p].pc \in {"access", "convAccess", "ffmpeg"} => call[p].params = Null
      /\ call[p].pc = "thrown" /\ (call[p].pr = Null \/ ~call[p].pr.success) =>
           /\ call[p].params = Null
           /\ call[p].result = Null

\* translateFile was thrown by a converter error and sent nothing.
C11_Witness ==
  /\ call[BatchCaller].op = "translate"
  /\ call[BatchCaller].pc = "thrown"
  /\ call[BatchCaller].pr # Null
  /\ ~call[BatchCaller].pr.success
  /\ call[BatchCaller].pr.error[1] = FfmpegPrefix
  /\ call[BatchCaller].params = Null

\* The spellings of the legacy extension among the modelled names.
LegacySpellings == {"opus", "OPUS"}

HasLegacyExtension(path) ==
  Len(path.segs) >= 2 /\ path.segs[Len(path.segs)] \in LegacySpellings

\* The input name with its last segment replaced by the target extension.
TargetOf(path) ==
  [dir |-> path.dir, segs |-> SubSeq(path.segs, 1, Len(path.segs) - 1) \o <<"mp4">>]

\* C12: for a path whose extension is the legacy one, in any letter case, a
\* successful processAudioFile returns wasConverted = true and a processed path
\* in the same directory, with the same base name and the extension mp4.
C12_ConvertedPathKeepsBaseName ==
  \A p \in Callers :
    /\ call[p].pr # Null
    /\ call[p].pr.success
    /\ HasLegacyExtension(call[p].filePath)
    => /\ call[p].pr.wasConverted
       /\ call[p].pr.processedPath = TargetOf(call[p].filePath)

\* The spellings of the compatible allow-listed extensions.
CompatibleSpellings ==
  {"mp3", "MP3", "wav", "m4a", "flac", "ogg", "webm", "mp4", "mpeg", "mpga"}

HasCompatibleExtension(path) ==
  Len(path.segs) >= 2 /\ path.segs[Len(path.segs)] \in CompatibleSpellings

\* C13: for a path whose extension is allow-listed and not the legacy one,
\* processAudioFile returns success = true, wasConverted = false and the
\* original path, and the converter is never started: the call is never at a
\* converter step.
C13_CompatibleFileUntouched ==
  \A p \in Callers :
    call[p].op # "none" /\ HasCompatibleExtension(call[p].filePath) =>
      /\ call[p].pc \notin {"convAccess", "ffmpeg"}
      /\ call[p].pc \in {"remote", "returned"} => call[p].pr # Null
      /\ call[p].pr # Null =>
           /\ call[p].pr.success
           /\ ~call[p].pr.wasConverted
           /\ call[p].pr.processedPath = call[p].filePath
           /\ call[p].pr.originalPath = call[p].filePath

\* transcribeFile returned for c.flac, processed without a conversion.
C13_Witness ==
  /\ call[BatchCaller].op = "transcribe"
  /\ call[BatchCaller].pc = "returned"
  /\ call[BatchCaller].filePath.segs = <<"c", "flac">>
  /\ call[BatchCaller].pr = CompatibleResult(call[BatchCaller].filePath)

HasSpelling(path, spellings) ==
  /\ Len(path.segs) >= 2
  /\ path.segs[Len(path.segs)] \in spellings
  /\ ~(Len(path.segs) = 2 /\ path.segs[1] = "")

\* C14: for every path string needsConversion and isValidAudioFile answer with
\* a boolean and leave the state as it was; needsConversion is true exactly for
\* a name ending in the legacy extension and isValidAudioFile exactly for a
\* name ending in one of the ten allow-listed extensions, in any letter case,
\* so both are false for an empty or unknown extension.
C14_ExtensionPredicates ==
  /\ "needsConversion" \in probe.applied =>
       /\ probe.needs \in BOOLEAN
       /\ probe.needs <=> HasSpelling(probe.path, LegacySpellings)
  /\ "isValidAudioFile" \in probe.applied =>
       /\ probe.valid \in BOOLEAN
       /\ probe.valid <=> HasSpelling(probe.path, LegacySpellings \cup CompatibleSpellings)
  /\ probe.applied # {} =>
       /\ model = configured
       /\ audioDir = <<>> /\ disk = {} /\ texts = {} /\ written = {}
       /\ attempts = <<>> /\ summary = Null /\ batch = IdleBatch
       /\ call = [p \in Callers |-> IdleCall]
       /\ route = [r \in Requests |-> IdleRoute]

\* Both were applied to a name without extension that spells the legacy
\* extension, and both said no.
C14_Witness ==
  /\ probe.applied = {"needsConversion", "isValidAudioFile"}
  /\ probe.path.segs = <<"OPUS">>
  /\ ~probe.needs
  /\ ~probe.valid

\* Positions of the listing whose name ends in an allow-listed extension.
AllowedPositions(files) ==
  {k \in 1..Len(files) :
     HasSpelling(Join(AudioDirName, files[k]), LegacySpellings \cup CompatibleSpellings)}

\* The j-th smallest member of a set of positions.
NthPosition(positions, j) ==
  CHOOSE k \in positions : Cardinality({m \in positions : m <= k}) = j

\* C15: processAudioDirectory discovers exactly the listed names whose
\* extension is allow-listed, in any letter case and in listing order; a name
\* outside the allow-list gets neither an attempt nor a report entry, and the
\* listing a.mp3, b.txt, c.flac gives attempts for a.mp3 and c.flac only.
C15_DiscoveryByAllowList ==
  batch.op = "processAudioDirectory" /\ batch.pc \notin {"readdir", "thrown"} =>
    LET allowed == AllowedPositions(batch.files)
    IN /\ Len(batch.audioFiles) = Cardinality(allowed)
       /\ \A j \in 1..Len(batch.audioFiles) :
            batch.audioFiles[j] = batch.files[NthPosition(allowed, j)]
       /\ \A k \in (1..Len(batch.files)) \ allowed :
            /\ \A j \in 1..Len(attempts) :
                 attempts[j] # Join(AudioDirName, batch.files[k])
            /\ \A j \in 1..Len(batch.results) :
                 EntryPath(batch.results[j]) # Join(AudioDirName, batch.files[k])
       /\ (Returned /\ batch.files = << <<"a", "mp3">>, <<"b", "txt">>, <<"c", "flac">> >>) =>
            attempts = << Join(AudioDirName, <<"a", "mp3">>),
                          Join(AudioDirName, <<"c", "flac">>) >>

\* The batch over the listing a.mp3, b.txt, c.flac returned with two report
\* entries.
C15_Witness ==
  /\ Returned
  /\ batch.files = << <<"a", "mp3">>, <<"b", "txt">>, <<"c", "flac">> >>
  /\ Len(attempts) = 2
  /\ Len(batch.results) = 2

\* C16: an entry of the audio directory that is itself a directory is skipped
\* by processAudioDirectory: it is never attempted and the report holds no
\* entry for it, whatever its name ends in.
C16_DirectoriesSkipped ==
  batch.op = "processAudioDirectory" =>
    /\ \A j \in 1..Len(attempts) : ~IsDirectory(attempts[j])
    /\ \A k \in 1..Len(batch.results) : ~IsDirectory(EntryPath(batch.results[k]))

\* C17: a transcribeFile request carries timestamp_granularities exactly when
\* the response format is verbose_json and the list is not empty, and then
\* with the caller's list; in every other case the option is left out, the
\* request is sent all the same, and the call fails only for a reason of the
\* file or of the remote service.
C17_GranularitiesOnlyWithVerboseJson ==
  \A p \in Callers :
    call[p].op = "transcribe" =>
      /\ call[p].params # Null =>
           /\ "timestamp_granularities" \in call[p].params.fields
                <=> /\ call[p].options.responseFormat = "verbose_json"
                    /\ call[p].options.timestampGranularities # <<>>
           /\ "timestamp_granularities" \in call[p].params.fields =>
                call[p].params.timestamp_granularities
                  = call[p].options.timestampGranularities
           /\ call[p].params.response_format = call[p].options.responseFormat
      /\ call[p].pr # Null /\ call[p].pr.success => call[p].params # Null
      /\ call[p].pc = "thrown" /\ call[p].params # Null =>
           Tail(call[p].error) \in RemoteErrors \cup {ReadDirectoryError}

\* A transcription asked in the text format with a granularity list returned,
\* its request sent without the option.
C17_Witness ==
  /\ call[BatchCaller].op = "transcribe"
  /\ call[BatchCaller].pc = "returned"
  /\ call[BatchCaller].options.responseFormat = "text"
  /\ call[BatchCaller].options.timestampGranularities # <<>>
  /\ "timestamp_granularities" \notin call[BatchCaller].params.fields

\* C18: every translateFile request sends language = en and no
\* timestamp_granularities, whatever language and granularities the caller
\* passed, and every result it returns has targetLanguage = en.
C18_TranslationAlwaysEnglish ==
  \A p \in Callers :
    call[p].op = "translate" =>
      /\ call[p].params # Null =>
           /\ call[p].params.api = "translations"
           /\ "language" \in call[p].params.fields
           /\ call[p].params.language = "en"
           /\ "timestamp_granularities" \notin call[p].params.fields
           /\ call[p].params.timestamp_granularities = <<>>
      /\ call[p].pc = "returned" =>
           call[p].result.metadata.targetLanguage = "en"

\* A translation called with language es and a granularity list returned.
C18_Witness ==
  /\ call[BatchCaller].op = "translate"
  /\ call[BatchCaller].pc = "returned"
  /\ call[BatchCaller].options.language = "es"
  /\ call[BatchCaller].options.timestampGranularities # <<>>
  /\ call[BatchCaller].result.metadata.targetLanguage = "en"

\* C19: saveTranscription never fails because of the shape of the payload:
\* a save of a result returned by transcribeFile or translateFile fails only
\* when the filesystem fails.
C19_SaveFailsOnlyOnFilesystem ==
  /\ \A r \in Requests :
       route[r].pc = "cleanup" /\ route[r].error[1] = SavePrefix =>
         Tail(route[r].error) \in FsErrors
  /\ batch.op = "processAudioDirectory" =>
       \A k \in 1..Len(batch.results) :
         ~batch.results[k].success /\ batch.results[k].error[1] = SavePrefix =>
           Tail(batch.results[k].error) \in FsErrors

\* The artifact path the claim derives for a result: the output directory and
\* the file name with its extension replaced by txt.
ArtifactPathOf(result, outputDirectory) ==
  [dir |-> outputDirectory,
   segs |-> SubSeq(result.metadata.fileName, 1, Len(result.metadata.fileName) - 1)
              \o <<"txt">>]

\* Report entries of the batch whose artifact was written.
SavedEntries ==
  {k \in 1..Len(batch.results) :
     batch.results[k].success /\ batch.results[k].metadata.originalFilePath \in written}

\* The last saved entry that has the artifact path of entry k.
LastSavedLike(k) ==
  CHOOSE j \in SavedEntries :
    /\ ArtifactPathOf(batch.results[j], batch.outputDirectory)
         = ArtifactPathOf(batch.results[k], batch.outputDirectory)
    /\ \A m \in SavedEntries :
         ArtifactPathOf(batch.results[m], batch.outputDirectory)
           = ArtifactPathOf(batch.results[k], batch.outputDirectory) => m <= j

\* C20: saveTranscription overwrites: the texts directory never holds two
\* artifacts of one path; after saving the same result once or several times
\* there is exactly one artifact, at <outputDir>/<base name>.txt, with the
\* content of the last save; and after a batch, every saved result's path
\* holds the content of the last result saved under that name.
C20_SaveOverwrites ==
  /\ \A a, b \in texts : a.path = b.path => a = b
  /\ batch.op = "direct" =>
       \A k \in 1..Len(batch.results) :
         (batch.results[k].ok /\ \A j \in (k + 1)..Len(batch.results) : ~batch.results[j].ok)
         => texts = {[path |-> ArtifactPathOf(call[BatchCaller].result, TextsDirName),
                      content |-> batch.results[k].content]}
  /\ batch.op = "processAudioDirectory" =>
       \A k \in SavedEntries :
         [path |-> ArtifactPathOf(batch.results[k], batch.outputDirectory),
          content |-> SaveTranscription(batch.results[LastSavedLike(k)],
                                        batch.outputDirectory, FsOk).content] \in texts

\* The same result was saved twice and one artifact is there.
C20_Witness ==
  /\ batch.op = "direct"
  /\ Len(batch.results) = 2
  /\ batch.results[1].ok
  /\ batch.results[2].ok
  /\ Cardinality(texts) = 1

\* The save of report entry k threw: the next entry is its failure record.
SaveFailedFor(k) ==
  /\ k + 1 <= Len(batch.results)
  /\ ~batch.results[k + 1].success
  /\ batch.results[k + 1].error[1] = SavePrefix
  /\ EntryPath(batch.results[k + 1]) = EntryPath(batch.results[k])

C22_OneArtifactPerSourceFile ==
  Returned /\ batch.outputDirectory # "" =>
    /\ \A j, k \in SavedEntries :
         j # k => ArtifactPathOf(batch.results[j], batch.outputDirectory)
                    # ArtifactPathOf(batch.results[k], batch.outputDirectory)
    /\ Cardinality(texts) = Cardinality(SavedEntries)

\* The file an invocation's converter is writing, and the file an invocation
\* is reading: the converter's input or the upload stream's file.
WritesFile(c, path) == c.pc = "ffmpeg" /\ ConvertOutputPath(c.filePath) = path
ReadsFile(c, path) ==
  \/ c.pc = "ffmpeg" /\ c.filePath = path
  \/ c.pc = "remote" /\ c.params.file = path

\* C23: concurrent invocations share no mutable state: no invocation writes a
\* file that another invocation is writing or reading at that moment.
C23_NoSharedFile ==
  \A p, q \in Requests :
    p # q =>
      \A path \in disk \cup {ConvertOutputPath(call[p].filePath)} :
        WritesFile(call[p], path) =>
          ~WritesFile(call[q], path) /\ ~ReadsFile(call[q], path)

\* The texts of the converter's and of the remote service's own messages.
DiagnosticTexts ==
  UNION {{m[i] : i \in 1..Len(m)} : m \in RemoteErrors \cup FfmpegErrors}

IsBackendFailure(error) ==
  \/ Tail(error) \in RemoteErrors
  \/ Len(error) >= 2 /\ error[2] = ProcessPrefix

\* C24: a conversion or remote-service failure of transcribeFile /
\* translateFile reaches the error handler with the marker of remote-service
\* failures in its message, and the handler answers 500 with a generic body
\* that holds none of the underlying diagnostic text, in every runtime mode.
C24_GenericFailureResponse ==
  \A r \in Requests :
    /\ route[r].pc = "cleanup" /\ Tail(route[r].error) \in RemoteErrors =>
         IncludesGroq(route[r].error)
    /\ route[r].pc = "cleanup" /\ IsBackendFailure(route[r].error) =>
         LET response == ErrorHandler(route[r].error, nodeEnv)
         IN /\ response.status = 500
            /\ \A i \in 1..Len(response.details) :
                 response.details[i] \notin DiagnosticTexts
    /\ route[r].pc = "failed" =>
         /\ route[r].response.status = 500
         /\ \A i \in 1..Len(route[r].response.details) :
              route[r].response.details[i] \notin DiagnosticTexts

\* A conversion or a remote call of the invocation is in flight.
InFlight(c) == c.pc \in {"convAccess", "ffmpeg", "remote"}

\* C25: within one processAudioDirectory at most one conversion or remote call
\* is in flight; the work on file i starts only when every earlier file has
\* its report entry and its save is over; no save runs while a call is in
\* flight; and no file is attempted twice, each attempt making at most one
\* conversion and one remote call.
C25_OneFileAtATime ==
  batch.op = "processAudioDirectory" =>
    LET c == call[BatchCaller]
    IN /\ Cardinality({p \in Callers : InFlight(call[p])}) <= 1
       /\ \A p \in Requests : ~InFlight(call[p])
       /\ InFlight(c) \/ c.pc = "access" =>
            /\ batch.pc = "awaitCall"
            /\ Len(attempts) = batch.i
            /\ c.filePath = Join(AudioDirName, batch.audioFiles[batch.i])
            /\ \A k \in 1..(batch.i - 1) :
                 \E e \in 1..Len(batch.results) :
                   /\ EntryPath(batch.results[e]) = attempts[k]
                   /\ (batch.results[e].success /\ batch.outputDirectory # "") =>
                        EntryPath(batch.results[e]) \in written \/ SaveFailedFor(e)
            /\ \A e \in 1..Len(batch.results) :
                 EntryPath(batch.results[e]) # c.filePath
       /\ batch.pc = "saving" => c.pc = "returned"
       /\ \A j, k \in 1..Len(attempts) : j # k => attempts[j] # attempts[k]
       /\ c.pc = "remote" /\ needsConversion(c.filePath) =>
            c.pr.wasConverted /\ c.params.file = c.pr.processedPath

\* The remote call of the second file, a converted one, is in flight after
\* the first file was transcribed and saved.
C25_Witness ==
  /\ batch.op = "processAudioDirectory"
  /\ batch.i = 2
  /\ call[BatchCaller].pc = "remote"
  /\ call[BatchCaller].pr.wasConverted
  /\ Len(batch.results) = 1
  /\ batch.results[1].success
  /\ EntryPath(batch.results[1]) \in written

\* C26: processing never overwrites a file that existed before the
\* invocation: no file the converter wrote replaced one that was there, so a
\* pre-existing x.mp4 keeps its content when x.opus is converted.
C26_ExistingFilesUntouched ==
  /\ \A m \in madeFrom : ~m.replaced
  /\ batch.op = "processAudioDirectory" =>
       \A m \in madeFrom :
         \A k \in 1..Len(batch.files) : m.path # Join(AudioDirName, batch.files[k])

\* C27: processAudioDirectory leaves the discoverable audio files of the
\* input directory unchanged: after the batch, a new listing filtered by the
\* allow-list gives the files this batch discovered, so a second run has a
\* report of the same length.
C27_DiscoveryUnchanged ==
  Returned => FilterAudio(Readdir(audioDir)) = batch.audioFiles

====
